---- MODULE Spec2Model ----
(***************************************************************************)
(* Model of the STEMI separation service (src/main.py): the in-process job *)
(* map active_jobs, the request handlers separate_audio, get_job_status    *)
(* and delete_job, and the background coroutine sync_runpod_jobs together  *)
(* with RunPodClient (src/runpod_client.py) and SupabaseStemStorage        *)
(* (src/supabase_integration.py).                                          *)
(*                                                                         *)
(* Concurrency: everything runs on one asyncio event loop.  The body of a  *)
(* synchronizer cycle (main.py:93-156) contains no await: the poll is the  *)
(* blocking requests.get of RunPodClient.get_job_status.  A cycle is       *)
(* therefore never interleaved with a request handler; handlers run only   *)
(* while the coroutine is parked in asyncio.sleep.  The cycle is still     *)
(* modelled job by job so that its intermediate states can be stated.      *)
(*                                                                         *)
(* Spec is the running service.  FairSpec and AnsweredSpec add what the    *)
(* event loop, and then the remote worker, guarantee about progress;       *)
(* ReadSpec adds the handlers download_stem and health_check, which only   *)
(* read the job map; ShutdownSpec adds the signal that ends the process.   *)
(***************************************************************************)
EXTENDS Integers, Sequences, FiniteSets, TLC

VARIABLES
    RUNPOD_AVAILABLE,   \* main.py:19-26  import flag
    SUPABASE_AVAILABLE, \* main.py:28-34  import flag
    runpod_client,      \* main.py:75     TRUE when a RunPodClient object is set
    supabase_storage,   \* main.py:76     TRUE when a SupabaseStemStorage object is set
    started,            \* startup_event has run
    active_jobs,        \* main.py:57     job_id -> RunPodJob
    job_order,          \* insertion order of the dict active_jobs
    upload_files,       \* files present under UPLOAD_DIR, by job id
    output_dirs,        \* directories present under OUTPUT_DIR, by name
    sync_pc,            \* position of the coroutine sync_runpod_jobs
    asyncio_sleep,      \* main.py:89,158,162  seconds of the sleep it is parked in
    pending_jobs,       \* main.py:93     rest of the snapshot of the running cycle
    sync_tasks,         \* main.py:176   tasks created for sync_runpod_jobs
    shutdown,           \* "running", "requested" (signal received), "exited"
    publish_count,      \* history: how often the publish step ran for a job
    sync_log,           \* history: what the last poll of the running cycle did
    response,           \* history: the last HTTP response since the last cycle
    worker,             \* runpod_handler.py  one run of handler(event) on the worker
    waiting             \* runpod_client.py:163-200  one call of wait_for_completion

vars == <<RUNPOD_AVAILABLE, SUPABASE_AVAILABLE, runpod_client, supabase_storage,
          started, active_jobs, job_order, upload_files, output_dirs, sync_pc,
          asyncio_sleep, sync_tasks, pending_jobs, shutdown, publish_count, sync_log,
          response, worker, waiting>>

----------------------------------------------------------------------------
(* Bounds *)
MaxJobs == 2
MaxTime == 1

JobIds == 1..MaxJobs

\* what datetime.now() can read; the wall clock is an input of each call
Times == 1..MaxTime

----------------------------------------------------------------------------
(* Values *)
SUBMITTED == "submitted"
IN_QUEUE == "in_queue"
IN_PROGRESS == "in_progress"
COMPLETED == "completed"
FAILED == "failed"

JobStatus == {SUBMITTED, IN_QUEUE, IN_PROGRESS, COMPLETED, FAILED}

\* Python None, per type of the field that holds it
None == [none |-> TRUE]
NoneStr == "None"
NoneTime == 0

EmptyDict == [k \in {} |-> ""]

\* Python truthiness of an Optional[dict]
Truthy(d) == d # None /\ DOMAIN d # {}

\* dict.get(key, default)
Get(d, k, default) == IF k \in DOMAIN d THEN d[k] ELSE default

StemNames == {"vocals", "bass"}
DefaultStems == <<"vocals", "bass", "drums", "other">>
Handles == {"h1"}

----------------------------------------------------------------------------
(* The remote worker's answers to GET /status/{id}, as the HTTP layer      *)
(* delivers them to RunPodClient.get_job_status.                           *)

\* stem name -> public URL, as the worker's own upload reports them
UrlMaps == {[n \in StemNames |-> "url"]}

\* stem name -> base64 text, well formed or not
B64Maps == {[n \in StemNames |-> "b64"],
            [n \in StemNames |-> IF n = "bass" THEN "notb64" ELSE "b64"]}

\* "output" of a COMPLETED answer: what runpod_handler.handler returned
Outputs ==
    {[stem_urls |-> u, storage_type |-> "supabase"] : u \in UrlMaps}
    \cup {[stems |-> b, storage_type |-> "base64"] : b \in B64Maps}
    \cup {[stems |-> EmptyDict, storage_type |-> "base64"]}
    \cup {[stem_urls |-> u, stems |-> [n \in StemNames |-> "b64"],
            storage_type |-> "base64"] : u \in UrlMaps}

\* JSON bodies of a 200 answer
StatusBodies ==
    {[id |-> "rp", status |-> s] : s \in {"IN_QUEUE", "IN_PROGRESS", "COMPLETED", "FAILED", "CANCELLED"}}
    \cup {[id |-> "rp"]}
    \cup {[id |-> "rp", status |-> "FAILED", error |-> "worker error"]}
    \cup {[id |-> "rp", status |-> "COMPLETED", output |-> o] : o \in Outputs}

\* a 200 answer whose JSON is no object: response.json() returns None
JsonNull == [json |-> "null"]

\* what requests.get does: raises (connection error, timeout), or an answer
StatusNet ==
    {[type |-> "exception"]}
    \cup {[type |-> "http", code |-> 500]}
    \cup {[type |-> "http", code |-> 200, body |-> JsonNull]}
    \cup {[type |-> "http", code |-> 200, body |-> b] : b \in StatusBodies}

\* a transient polling error: the request raised or the answer is not 200
Transient(net) == net.type = "exception" \/ net.code # 200

\* RunPodClient.get_job_status: the dict handed to the synchronizer
client_get_job_status(net) ==
    IF net.type = "exception" THEN [error |-> "status check error"]
    ELSE IF net.code = 200 THEN net.body
    ELSE [error |-> "Status API error"]

\* what encode_audio_file and requests.post to /run do in separate_stems_async
SubmitNet ==
    {[type |-> "exception"], [type |-> "http", code |-> 500], [type |-> "http", code |-> 200, id |-> NoneStr]}
    \cup {[type |-> "http", code |-> 200, id |-> h] : h \in Handles}

\* RunPodClient.separate_stems_async: the job id, or an exception
separate_stems_async(net) ==
    IF net.type = "exception" THEN [raised |-> TRUE]
    ELSE IF net.code = 200 THEN [raised |-> FALSE, value |-> net.id]
    ELSE [raised |-> TRUE]

\* base64.b64decode of one returned stem
b64decode(s) == IF s = "b64" THEN [raised |-> FALSE] ELSE [raised |-> TRUE]

\* SupabaseStemStorage has no attribute upload_stems_from_bytes: the call at
\* main.py:142 raises AttributeError before any artifact reaches the store
upload_stems_from_bytes(job_id, stem_files) == [raised |-> TRUE]

----------------------------------------------------------------------------
(* RunPodJob and the synchronizer's per-job body                           *)

\* RunPodJob.__init__
RunPodJob(job_id, runpod_job_id, stems, t) ==
    [job_id |-> job_id, runpod_job_id |-> runpod_job_id, stems |-> stems,
     status |-> SUBMITTED, created_at |-> t, completed_at |-> NoneTime,
     result |-> None, error |-> NoneStr, supabase_urls |-> None]

\* variants of the filter that let a terminal job back into the snapshot
IsPending_withFailed(job) ==
    job.status \in {SUBMITTED, IN_QUEUE, IN_PROGRESS, FAILED}

IsPending_withCompleted(job) ==
    job.status \in {SUBMITTED, IN_QUEUE, IN_PROGRESS, COMPLETED}

\* the filter of the list comprehension that builds pending_jobs
IsPending(job) == job.status \in {SUBMITTED, IN_QUEUE, IN_PROGRESS}

\* variant: a failed upload fails the job
PublishBase64_failsJob(job) ==
    [job |-> [job EXCEPT !.status = FAILED, !.error = "upload failed"],
     event |-> "publish_failed"]

\* legacy branch: decode the base64 stems, upload them, record the URLs
PublishBase64(job) ==
    LET stems == job.result["stems"]
        decoded == \A n \in DOMAIN stems : ~b64decode(stems[n]).raised
        up == upload_stems_from_bytes(job.job_id, stems)
    IN  IF decoded /\ ~up.raised
        THEN [job |-> [job EXCEPT !.supabase_urls = up.value], event |-> "uploaded"]
        ELSE [job |-> job, event |-> "publish_failed"]

\* variant: the URLs of the answer are not copied
OnCompleted_noCopy(job, status_response, t, storage_ok) ==
    LET j1 == [job EXCEPT !.status = COMPLETED, !.completed_at = t,
                          !.result = Get(status_response, "output", EmptyDict)]
    IN  IF storage_ok /\ Truthy(j1.result) /\ "stems" \in DOMAIN j1.result
                /\ DOMAIN j1.result["stems"] # {}
                /\ Get(j1.result, "storage_type", NoneStr) = "base64"
        THEN PublishBase64(j1)
        ELSE [job |-> j1, event |-> "no_publish"]

\* variant: the result is stored while the status stays as it was
OnCompleted_keepsStatus(job, status_response, t, storage_ok) ==
    LET j1 == [job EXCEPT !.completed_at = t,
                          !.result = Get(status_response, "output", EmptyDict)]
    IN  IF Truthy(j1.result) /\ "stem_urls" \in DOMAIN j1.result
        THEN [job |-> [j1 EXCEPT !.supabase_urls = j1.result["stem_urls"]],
              event |-> "copied"]
        ELSE IF storage_ok /\ Truthy(j1.result) /\ "stems" \in DOMAIN j1.result
                /\ DOMAIN j1.result["stems"] # {}
                /\ Get(j1.result, "storage_type", NoneStr) = "base64"
        THEN PublishBase64(j1)
        ELSE [job |-> j1, event |-> "no_publish"]

\* the COMPLETED branch: status, completed_at, result, then the publish step
OnCompleted(job, status_response, t, storage_ok) ==
    LET j1 == [job EXCEPT !.status = COMPLETED, !.completed_at = t,
                          !.result = Get(status_response, "output", EmptyDict)]
    IN  IF Truthy(j1.result) /\ "stem_urls" \in DOMAIN j1.result
        THEN [job |-> [j1 EXCEPT !.supabase_urls = j1.result["stem_urls"]],
              event |-> "copied"]
        ELSE IF storage_ok /\ Truthy(j1.result) /\ "stems" \in DOMAIN j1.result
                /\ DOMAIN j1.result["stems"] # {}
                /\ Get(j1.result, "storage_type", NoneStr) = "base64"
        THEN PublishBase64(j1)
        ELSE [job |-> j1, event |-> "no_publish"]

\* variant: a remote FAILED answer does not stamp completed_at
ProcessPoll_noStamp(job, status_response, t, storage_ok) ==
    IF "error" \in DOMAIN status_response
    THEN [job |-> [job EXCEPT !.status = FAILED, !.error = status_response["error"],
                              !.completed_at = t],
          event |-> "failed"]
    ELSE LET runpod_status == Get(status_response, "status", NoneStr)
         IN  IF runpod_status = "IN_QUEUE"
             THEN [job |-> [job EXCEPT !.status = IN_QUEUE], event |-> "status"]
             ELSE IF runpod_status = "IN_PROGRESS"
             THEN [job |-> [job EXCEPT !.status = IN_PROGRESS], event |-> "status"]
             ELSE IF runpod_status = "COMPLETED"
             THEN OnCompleted(job, status_response, t, storage_ok)
             ELSE IF runpod_status = "FAILED"
             THEN [job |-> [job EXCEPT !.status = FAILED,
                                       !.error = Get(status_response, "error", "Unknown error")],
                   event |-> "failed"]
             ELSE [job |-> job, event |-> "ignored"]

\* variant: an IN_QUEUE answer puts the job back to submitted
ProcessPoll_resubmit(job, status_response, t, storage_ok) ==
    IF "error" \in DOMAIN status_response
    THEN [job |-> [job EXCEPT !.status = FAILED, !.error = status_response["error"],
                              !.completed_at = t],
          event |-> "failed"]
    ELSE LET runpod_status == Get(status_response, "status", NoneStr)
         IN  IF runpod_status = "IN_QUEUE"
             THEN [job |-> [job EXCEPT !.status = SUBMITTED], event |-> "status"]
             ELSE IF runpod_status = "IN_PROGRESS"
             THEN [job |-> [job EXCEPT !.status = IN_PROGRESS], event |-> "status"]
             ELSE IF runpod_status = "COMPLETED"
             THEN OnCompleted(job, status_response, t, storage_ok)
             ELSE IF runpod_status = "FAILED"
             THEN [job |-> [job EXCEPT !.status = FAILED,
                                       !.error = Get(status_response, "error", "Unknown error"),
                                       !.completed_at = t],
                   event |-> "failed"]
             ELSE [job |-> job, event |-> "ignored"]

\* variant: a remote FAILED answer leaves the error unset
ProcessPoll_noError(job, status_response, t, storage_ok) ==
    IF "error" \in DOMAIN status_response
    THEN [job |-> [job EXCEPT !.status = FAILED, !.error = status_response["error"],
                              !.completed_at = t],
          event |-> "failed"]
    ELSE LET runpod_status == Get(status_response, "status", NoneStr)
         IN  IF runpod_status = "IN_QUEUE"
             THEN [job |-> [job EXCEPT !.status = IN_QUEUE], event |-> "status"]
             ELSE IF runpod_status = "IN_PROGRESS"
             THEN [job |-> [job EXCEPT !.status = IN_PROGRESS], event |-> "status"]
             ELSE IF runpod_status = "COMPLETED"
             THEN OnCompleted(job, status_response, t, storage_ok)
             ELSE IF runpod_status = "FAILED"
             THEN [job |-> [job EXCEPT !.status = FAILED, !.completed_at = t],
                   event |-> "failed"]
             ELSE [job |-> job, event |-> "ignored"]

\* variant: an answer with a status the loop does not know fails the job
ProcessPoll_unknownFails(job, status_response, t, storage_ok) ==
    IF "error" \in DOMAIN status_response
    THEN [job |-> [job EXCEPT !.status = FAILED, !.error = status_response["error"],
                              !.completed_at = t],
          event |-> "failed"]
    ELSE LET runpod_status == Get(status_response, "status", NoneStr)
         IN  IF runpod_status = "IN_QUEUE"
             THEN [job |-> [job EXCEPT !.status = IN_QUEUE], event |-> "status"]
             ELSE IF runpod_status = "IN_PROGRESS"
             THEN [job |-> [job EXCEPT !.status = IN_PROGRESS], event |-> "status"]
             ELSE IF runpod_status = "COMPLETED"
             THEN OnCompleted(job, status_response, t, storage_ok)
             ELSE [job |-> [job EXCEPT !.status = FAILED,
                                       !.error = Get(status_response, "error", "Unknown error"),
                                       !.completed_at = t],
                   event |-> "failed"]

\* the body of "for job in pending_jobs" for one answer of get_job_status
ProcessPoll(job, status_response, t, storage_ok) ==
    IF "error" \in DOMAIN status_response
    THEN [job |-> [job EXCEPT !.status = FAILED, !.error = status_response["error"],
                              !.completed_at = t],
          event |-> "failed"]
    ELSE LET runpod_status == Get(status_response, "status", NoneStr)
         IN  IF runpod_status = "IN_QUEUE"
             THEN [job |-> [job EXCEPT !.status = IN_QUEUE], event |-> "status"]
             ELSE IF runpod_status = "IN_PROGRESS"
             THEN [job |-> [job EXCEPT !.status = IN_PROGRESS], event |-> "status"]
             ELSE IF runpod_status = "COMPLETED"
             THEN OnCompleted(job, status_response, t, storage_ok)
             ELSE IF runpod_status = "FAILED"
             THEN [job |-> [job EXCEPT !.status = FAILED,
                                       !.error = Get(status_response, "error", "Unknown error"),
                                       !.completed_at = t],
                   event |-> "failed"]
             ELSE [job |-> job, event |-> "ignored"]

----------------------------------------------------------------------------
(* The remote worker (src/runpod_handler.py): handler(event) and            *)
(* separate_stems, with LightweightSupabaseClient.upload_stems              *)
(* (src/lightweight_supabase.py).  It runs in a process of its own; the     *)
(* service sees it only through the answers of the status API.              *)

WorkerStemNames == {"vocals", "bass"}

\* "stems" of the event's input, in the order given
WorkerStems == {<<"vocals", "bass">>, <<"bass", "vocals">>, <<"vocals">>}

\* event["input"]: without audio_file, with text that is no base64, or well formed
EventInputs ==
    {[stems |-> st] : st \in WorkerStems}
    \cup {[audio_file |-> a, stems |-> st] : a \in {"b64", "notb64"}, st \in WorkerStems}

\* what one run of separate_stems meets:
\*   write    temp_input.write(audio_data) in the NamedTemporaryFile block
\*   load     torchaudio.load and the mono/resample steps
\*   demucs   demucs.separate.main() raises, leaves no output directory, or
\*            leaves the wav files named in available
\*   client   LightweightSupabaseClient() raises (SUPABASE_URL or
\*            SUPABASE_ANON_KEY unset; the name itself is bound only if the
\*            module supabase_client imported at line 21 provides it) or not
\*   upload   per stem, whether the POST of upload_file is answered 200/201
\*   unlink, rmtree   whether the cleanup calls in the finally block succeed
WorkerEnvs ==
    [write : {"ok", "raises"}, load : {"ok", "raises"},
     demucs : {"ok", "no_output", "raises"}, available : SUBSET WorkerStemNames,
     client : {"ok", "raises"}, upload : [WorkerStemNames -> BOOLEAN],
     unlink : {"ok", "fails"}, rmtree : {"ok", "fails"}]

NoUrls == [n \in {} |-> "url"]

RECURSIVE upload_stems_skips(_, _, _)
\* variant: a stem whose upload fails is left out and the loop goes on
upload_stems_skips(stem_buffers, upload, uploaded_urls) ==
    IF stem_buffers = <<>>
    THEN [raised |-> FALSE, value |-> uploaded_urls, stored |-> DOMAIN uploaded_urls]
    ELSE IF upload[Head(stem_buffers)]
         THEN upload_stems_skips(Tail(stem_buffers), upload,
                  [n \in DOMAIN uploaded_urls \cup {Head(stem_buffers)} |-> "url"])
         ELSE upload_stems_skips(Tail(stem_buffers), upload, uploaded_urls)

RECURSIVE upload_stems(_, _, _)
\* LightweightSupabaseClient.upload_stems: the loop over stem_buffers in dict
\* order, from the stem at hand on, with the URLs collected so far; the first
\* upload_file that raises is raised on
upload_stems(stem_buffers, upload, uploaded_urls) ==
    IF stem_buffers = <<>>
    THEN [raised |-> FALSE, value |-> uploaded_urls, stored |-> DOMAIN uploaded_urls]
    ELSE IF upload[Head(stem_buffers)]
         THEN upload_stems(Tail(stem_buffers), upload,
                  [n \in DOMAIN uploaded_urls \cup {Head(stem_buffers)} |-> "url"])
         ELSE [raised |-> TRUE, stored |-> DOMAIN uploaded_urls]

\* the outer except of separate_stems
ErrorResult == [success |-> FALSE, error |-> "str(e)"]

\* the inner try of separate_stems, from sys.argv to the return of result
SeparateAndUpload(stems, env) ==
    IF env.demucs # "ok" THEN [result |-> ErrorResult, stored |-> {}]
    ELSE IF env.client = "raises" THEN [result |-> ErrorResult, stored |-> {}]
    ELSE LET stem_buffers == SelectSeq(stems, LAMBDA n : n \in env.available)
             up == upload_stems(stem_buffers, env.upload, NoUrls)
         IN  IF up.raised THEN [result |-> ErrorResult, stored |-> up.stored]
             ELSE [result |-> [success |-> TRUE, stem_urls |-> up.value,
                               available_stems |-> env.available,
                               storage_type |-> "supabase"],
                   stored |-> up.stored]

\* separate_stems: the result, whether the temporary input file and the
\* temporary demucs directory still exist at the return, and the stems that
\* were put into the store
separate_stems(stems, env) ==
    IF env.write = "raises" \/ env.load = "raises"
    THEN \* raised before the inner try: the finally block is not entered
         [result |-> ErrorResult, temp_input_path |-> TRUE, temp_demucs_dir |-> FALSE,
          stored |-> {}]
    ELSE LET r == SeparateAndUpload(stems, env)
         IN  [result |-> r.result,
              temp_input_path |-> env.unlink = "fails",
              temp_demucs_dir |-> env.rmtree = "fails",
              stored |-> r.stored]

\* handler: the response built from the result of separate_stems
HandlerResponse(result) ==
    IF result.success
    THEN [status |-> "completed", stem_urls |-> result.stem_urls,
          available_stems |-> result.available_stems,
          storage_type |-> result.storage_type]
    ELSE [error |-> result.error]

\* the worker before an event arrives
WorkerIdle == [pc |-> "idle"]

----------------------------------------------------------------------------
(* RunPodClient.wait_for_completion (src/runpod_client.py:163-200).  Time   *)
(* is counted in polling intervals.                                         *)

\* max_wait, in polling intervals
MaxWait == 2

\* the clock stops being counted here
MaxClock == 4

NotWaiting == [pc |-> "idle"]

\* an answer that ends the wait: an error, COMPLETED or FAILED
EndsWait(status) ==
    \/ "error" \in DOMAIN status
    \/ Get(status, "status", NoneStr) \in {"COMPLETED", "FAILED"}

\* variant: a FAILED answer is waited out like one in progress
WaitBody_ignoresFailed(status) ==
    IF status = JsonNull
    THEN [pc |-> "raised"]
    ELSE IF "error" \in DOMAIN status THEN [pc |-> "returned", value |-> status]
    ELSE IF Get(status, "status", NoneStr) = "COMPLETED"
    THEN [pc |-> "returned", value |-> status]
    ELSE [pc |-> "sleeping"]

\* the body of the while loop for one answer of get_job_status
WaitBody(status) ==
    IF status = JsonNull
    THEN \* "error" in None: TypeError leaves the function
         [pc |-> "raised"]
    ELSE IF "error" \in DOMAIN status THEN [pc |-> "returned", value |-> status]
    ELSE IF Get(status, "status", NoneStr) = "COMPLETED"
    THEN [pc |-> "returned", value |-> status]
    ELSE IF Get(status, "status", NoneStr) = "FAILED"
    THEN [pc |-> "returned", value |-> [error |-> "Job failed"]]
    ELSE [pc |-> "sleeping"]

----------------------------------------------------------------------------
(* State after module import                                               *)

NoJobs == [j \in {} |-> None]

\* Names under OUTPUT_DIR.  Nothing in the service creates a directory there,
\* so the directories are the ones found at start; uuid4 job ids do not
\* collide with them, and 0 stands for such a name.
OldDirs == {0}
PathIds == JobIds \cup OldDirs

\* sync_log while no cycle is running; otherwise the job of the last poll,
\* the handle get_job_status was called with and what the body did with the answer
NoPoll ==
    [event |-> "none", job_id |-> 0, transient |-> FALSE, runpod_job_id |-> NoneStr,
     runpod_status |-> NoneStr]

Init ==
    /\ RUNPOD_AVAILABLE \in BOOLEAN
    /\ SUPABASE_AVAILABLE \in BOOLEAN
    /\ runpod_client = FALSE
    /\ supabase_storage = FALSE
    /\ started = FALSE
    /\ active_jobs = NoJobs
    /\ job_order = <<>>
    /\ upload_files = {}
    /\ output_dirs \in SUBSET OldDirs
    /\ sync_pc = "none"
    /\ asyncio_sleep = 0
    /\ sync_tasks = 0
    /\ pending_jobs = <<>>
    /\ shutdown = "running"
    /\ publish_count = [j \in JobIds |-> 0]
    /\ sync_log = NoPoll
    /\ response = [op |-> "none"]
    /\ worker = WorkerIdle
    /\ waiting = NotWaiting

\* startup_event: credentials found or not, SupabaseStemStorage() raises or not
startup_event ==
    /\ ~started
    /\ \E credentials \in BOOLEAN, storage_init_ok \in BOOLEAN :
        /\ runpod_client' = (RUNPOD_AVAILABLE /\ credentials)
        /\ sync_pc' = IF RUNPOD_AVAILABLE /\ credentials THEN "sleep" ELSE "none"
        /\ asyncio_sleep' = 0
        /\ sync_tasks' = IF RUNPOD_AVAILABLE /\ credentials
                         THEN sync_tasks + 1 ELSE sync_tasks
        /\ supabase_storage' = (SUPABASE_AVAILABLE /\ storage_init_ok)
    /\ started' = TRUE
    /\ UNCHANGED <<worker, waiting, RUNPOD_AVAILABLE, SUPABASE_AVAILABLE, active_jobs, job_order,
                   upload_files, output_dirs, pending_jobs, shutdown, publish_count,
                   sync_log, response>>

----------------------------------------------------------------------------
(* sync_runpod_jobs.  Positions of the coroutine: "sleep" is the           *)
(* asyncio.sleep(5) that ends a cycle, "backoff" the asyncio.sleep(10) of   *)
(* the loop-level except, "cycle" the body in between.  The body has no     *)
(* await: with jobs left in pending_jobs the coroutine is inside            *)
(* runpod_client.get_job_status for the first of them, and SyncPollJob is   *)
(* that call returning together with everything up to the next call.        *)

\* a sleep ends, a cycle starts: snapshot of the pending jobs
SyncSnapshot ==
    /\ sync_pc \in {"sleep", "backoff"}
    /\ shutdown = "running"
    /\ IF ~runpod_client
       THEN \* no client: await asyncio.sleep(10), continue
            /\ sync_pc' = "backoff"
            /\ asyncio_sleep' = 10
            /\ UNCHANGED <<pending_jobs, response>>
       ELSE /\ pending_jobs' = SelectSeq(job_order, LAMBDA j : IsPending(active_jobs[j]))
            /\ sync_pc' = "cycle"
            /\ asyncio_sleep' = 0
            /\ response' = [op |-> "none"]
    /\ UNCHANGED <<worker, waiting, RUNPOD_AVAILABLE, SUPABASE_AVAILABLE, runpod_client, supabase_storage,
                   started, active_jobs, job_order, upload_files, output_dirs,
                   sync_tasks, shutdown, publish_count, sync_log>>

\* what the answer of get_job_status is to the body of the loop: no dict, a
\* dict with an "error" key, or else its "status" value
AnswerKind(status_response) ==
    IF status_response = JsonNull THEN "null"
    ELSE IF "error" \in DOMAIN status_response THEN "error"
    ELSE Get(status_response, "status", "missing")

Published(event) == event \in {"copied", "uploaded", "publish_failed"}

\* the try/except around the body of one job: an answer that is no dict
\* makes the body raise, the except logs it and the job stays as it is
PollJob(job, status_response, t, storage_ok) ==
    IF status_response = JsonNull
    THEN [job |-> job, event |-> "raised"]
    ELSE ProcessPoll(job, status_response, t, storage_ok)

\* variant: an exception in the body of one job ends the for loop
SyncPollJob_abort ==
    /\ sync_pc = "cycle"
    /\ pending_jobs # <<>>
    /\ \E net \in StatusNet, t \in Times :
        LET j == Head(pending_jobs)
            r == PollJob(active_jobs[j], client_get_job_status(net), t,
                         SUPABASE_AVAILABLE /\ supabase_storage)
        IN  /\ active_jobs' = [active_jobs EXCEPT ![j] = r.job]
            /\ publish_count' = [publish_count EXCEPT
                    ![j] = IF Published(r.event) /\ @ < 2 THEN @ + 1 ELSE @]
            /\ sync_log' = [event |-> r.event, job_id |-> j, transient |-> Transient(net),
                            runpod_job_id |-> active_jobs[j].runpod_job_id,
                            runpod_status |-> AnswerKind(client_get_job_status(net))]
            /\ pending_jobs' = IF r.event = "raised" THEN <<>> ELSE Tail(pending_jobs)
    /\ UNCHANGED <<worker, waiting, RUNPOD_AVAILABLE, SUPABASE_AVAILABLE, runpod_client, supabase_storage,
                   started, job_order, upload_files, output_dirs, sync_pc, asyncio_sleep, sync_tasks,
                   shutdown, response>>

\* one iteration of "for job in pending_jobs": poll, then the whole body
SyncPollJob ==
    /\ sync_pc = "cycle"
    /\ pending_jobs # <<>>
    /\ \E net \in StatusNet, t \in Times :
        LET j == Head(pending_jobs)
            r == PollJob(active_jobs[j], client_get_job_status(net), t,
                         SUPABASE_AVAILABLE /\ supabase_storage)
        IN  /\ active_jobs' = [active_jobs EXCEPT ![j] = r.job]
            /\ publish_count' = [publish_count EXCEPT
                    ![j] = IF Published(r.event) /\ @ < 2 THEN @ + 1 ELSE @]
            /\ sync_log' = [event |-> r.event, job_id |-> j, transient |-> Transient(net),
                            runpod_job_id |-> active_jobs[j].runpod_job_id,
                            runpod_status |-> AnswerKind(client_get_job_status(net))]
    /\ pending_jobs' = Tail(pending_jobs)
    /\ UNCHANGED <<worker, waiting, RUNPOD_AVAILABLE, SUPABASE_AVAILABLE, runpod_client, supabase_storage,
                   started, job_order, upload_files, output_dirs, sync_pc, asyncio_sleep, sync_tasks,
                   shutdown, response>>

\* variant: the coroutine goes to sleep with jobs of the snapshot left
SyncSleep_early ==
    /\ sync_pc = "cycle"
    /\ sync_pc' = "sleep"
    /\ asyncio_sleep' = 5
    /\ sync_log' = NoPoll
    /\ UNCHANGED <<worker, waiting, RUNPOD_AVAILABLE, SUPABASE_AVAILABLE, runpod_client, supabase_storage,
                   started, active_jobs, job_order, upload_files, output_dirs,
                   sync_tasks, pending_jobs, shutdown, publish_count, response>>

\* variant: the cycle ends with the long sleep
SyncSleep_long ==
    /\ sync_pc = "cycle"
    /\ pending_jobs = <<>>
    /\ sync_pc' = "sleep"
    /\ asyncio_sleep' = 10
    /\ sync_log' = NoPoll
    /\ UNCHANGED <<worker, waiting, RUNPOD_AVAILABLE, SUPABASE_AVAILABLE, runpod_client, supabase_storage,
                   started, active_jobs, job_order, upload_files, output_dirs,
                   sync_tasks, pending_jobs, shutdown, publish_count, response>>

\* the for loop is exhausted: await asyncio.sleep(5)
SyncSleep ==
    /\ sync_pc = "cycle"
    /\ pending_jobs = <<>>
    /\ sync_pc' = "sleep"
    /\ asyncio_sleep' = 5
    /\ sync_log' = NoPoll
    /\ UNCHANGED <<worker, waiting, RUNPOD_AVAILABLE, SUPABASE_AVAILABLE, runpod_client, supabase_storage,
                   started, active_jobs, job_order, upload_files, output_dirs,
                   sync_tasks, pending_jobs, shutdown, publish_count, response>>

\* variant: the exception ends the coroutine
SyncLoopError_exits ==
    /\ sync_pc = "cycle"
    /\ sync_pc' = "none"
    /\ asyncio_sleep' = 0
    /\ pending_jobs' = <<>>
    /\ sync_log' = NoPoll
    /\ UNCHANGED <<worker, waiting, RUNPOD_AVAILABLE, SUPABASE_AVAILABLE, runpod_client, supabase_storage,
                   started, active_jobs, job_order, upload_files, output_dirs,
                   sync_tasks, shutdown, publish_count, response>>

\* an exception reaches the loop-level except: the rest of the cycle is
\* dropped, the error is logged, await asyncio.sleep(10)
SyncLoopError ==
    /\ sync_pc = "cycle"
    /\ sync_pc' = "backoff"
    /\ asyncio_sleep' = 10
    /\ pending_jobs' = <<>>
    /\ sync_log' = NoPoll
    /\ UNCHANGED <<worker, waiting, RUNPOD_AVAILABLE, SUPABASE_AVAILABLE, runpod_client, supabase_storage,
                   started, active_jobs, job_order, upload_files, output_dirs,
                   sync_tasks, shutdown, publish_count, response>>

----------------------------------------------------------------------------
(* Request handlers.  They run on the event loop, so only while the        *)
(* synchronizer is parked in asyncio.sleep (or was never started).         *)

Serving == started /\ sync_pc # "cycle" /\ shutdown = "running"

\* file.content_type: a media type, or None when the part carries none
ContentTypes == {"audio/mpeg", "text/plain", NoneStr}

\* content_type.startswith("audio/")
startswith_audio(content_type) == content_type = "audio/mpeg"

\* content = await file.read(): no bytes, or some
Contents == {"", "bytes"}

\* the stems query parameter: absent, or comma separated names
StemsParams == {<<>>, <<"vocals", " bass">>}

\* str.strip of one name
strip(name) == IF name = " bass" THEN "bass" ELSE name

\* variant: the requested names are dropped
stem_list_default(stems) == DefaultStems

\* stem_list of separate_audio
stem_list(stems) ==
    IF stems = <<>> THEN DefaultStems ELSE [i \in DOMAIN stems |-> strip(stems[i])]

\* the ids this process has handed out so far
Used == DOMAIN active_jobs \cup upload_files

\* variant: an id that a registered job already carries can come again
FreshIds_any == JobIds \ upload_files

\* uuid.uuid4(): an id no job of this process carries
\* (ids are opaque: the model hands them out in increasing order)
FreshIds == {j \in JobIds \ Used : \A k \in JobIds \ Used : j <= k}

\* staging the payload: file.read() and the write to UPLOAD_DIR succeed, or
\* no file is created, or the write fails after the file was created
StageCases == {"ok", "no_file", "partial_file"}

\* what os.remove(file_path) meets: it removes the file, or the file has
\* vanished (FileNotFoundError), or it cannot be removed (PermissionError)
RemoveCases == {"ok", "gone", "denied"}

\* the staged file after the handler's os.remove calls
AfterRemove(job_id, remove) ==
    IF remove = "denied" THEN upload_files \cup {job_id} ELSE upload_files \ {job_id}

\* history kept with an answer of /separate: the content type and the
\* payload the handler looked at ("unread" when it did not get there),
\* whether it called the remote worker, and the staged files before the request
Request(content_type, content, called) ==
    [content_type |-> content_type, content |-> content, called |-> called,
     files |-> upload_files]

ErrorResponse(code, request) ==
    [op |-> "submit", code |-> code, before |-> DOMAIN active_jobs, request |-> request]

\* the try block of separate_audio around the remote submission
SubmitToRunPod(job_id, stems, sub, remove, t, request) ==
    IF sub.raised
    THEN \* except: remove the staged file if it exists, 500
         /\ UNCHANGED <<active_jobs, job_order>>
         /\ upload_files' = AfterRemove(job_id, remove)
         /\ response' = ErrorResponse(500, request)
    ELSE /\ active_jobs' = [j \in DOMAIN active_jobs \cup {job_id} |->
                IF j = job_id THEN RunPodJob(job_id, sub.value, stem_list(stems), t)
                ELSE active_jobs[j]]
         /\ job_order' = Append(job_order, job_id)
         /\ upload_files' = AfterRemove(job_id, remove)
         /\ IF remove = "ok"
            THEN response' = [op |-> "submit", code |-> 200, job_id |-> job_id,
                              status |-> "submitted", runpod_job_id |-> sub.value,
                              stems |-> stems, request |-> request,
                              before |-> DOMAIN active_jobs]
            ELSE \* os.remove raised after the job was registered: except, 500
                 response' = ErrorResponse(500, request)

\* POST /separate
separate_audio ==
    /\ Serving
    /\ IF ~RUNPOD_AVAILABLE \/ ~runpod_client
       THEN /\ response' = ErrorResponse(503, Request("unread", "unread", FALSE))
            /\ UNCHANGED <<active_jobs, job_order, upload_files>>
       ELSE \E content_type \in ContentTypes :
            IF content_type = NoneStr
            THEN \* None has no startswith: AttributeError, outer except, 500
                 /\ response' = ErrorResponse(500, Request(content_type, "unread", FALSE))
                 /\ UNCHANGED <<active_jobs, job_order, upload_files>>
            ELSE IF ~startswith_audio(content_type)
            THEN /\ response' = ErrorResponse(400, Request(content_type, "unread", FALSE))
                 /\ UNCHANGED <<active_jobs, job_order, upload_files>>
            ELSE \E job_id \in FreshIds, staged \in StageCases :
                 IF staged = "no_file"
                 THEN \* file.read() or open() raised: outer except, 500
                      /\ response' = ErrorResponse(500, Request(content_type, "unread", FALSE))
                      /\ UNCHANGED <<active_jobs, job_order, upload_files>>
                 ELSE \E content \in Contents :
                      IF staged = "partial_file"
                      THEN \* buffer.write() raised: outer except, 500, the file stays
                           /\ response' = ErrorResponse(500, Request(content_type, content, FALSE))
                           /\ upload_files' = upload_files \cup {job_id}
                           /\ UNCHANGED <<active_jobs, job_order>>
                      ELSE \E stems \in StemsParams, net \in SubmitNet,
                              remove \in RemoveCases, t \in Times :
                              SubmitToRunPod(job_id, stems, separate_stems_async(net),
                                             remove, t, Request(content_type, content, TRUE))
    /\ UNCHANGED <<worker, waiting, RUNPOD_AVAILABLE, SUPABASE_AVAILABLE, runpod_client, supabase_storage,
                   started, output_dirs, sync_pc, asyncio_sleep, sync_tasks, pending_jobs, shutdown,
                   publish_count, sync_log>>

\* history: the request just before was a Submit that answered with an error
\* and put job_id into the registry, so no answer ever carried this id
Unanswered(job_id) ==
    /\ response.op = "submit"
    /\ response.code # 200
    /\ job_id \in DOMAIN active_jobs \ response.before

\* GET /jobs/{job_id}
get_job_status ==
    /\ Serving
    /\ \E job_id \in PathIds :
        response' = IF job_id \notin DOMAIN active_jobs
                    THEN [op |-> "query", job_id |-> job_id, code |-> 404,
                          unanswered |-> Unanswered(job_id)]
                    ELSE [op |-> "query", job_id |-> job_id, code |-> 200,
                          status |-> active_jobs[job_id].status,
                          completed_at |-> active_jobs[job_id].completed_at,
                          unanswered |-> Unanswered(job_id)]
    /\ UNCHANGED <<worker, waiting, RUNPOD_AVAILABLE, SUPABASE_AVAILABLE, runpod_client, supabase_storage,
                   started, active_jobs, job_order, upload_files, output_dirs, sync_pc, asyncio_sleep,
                   sync_tasks, pending_jobs, shutdown, publish_count, sync_log>>

\* what delete_stems meets: the store works, or its calls raise
StoreCases == {"ok", "fails"}

\* DELETE /jobs/{job_id}
delete_job ==
    /\ Serving
    /\ \E job_id \in PathIds :
        IF job_id \notin output_dirs
        THEN /\ response' = [op |-> "delete", job_id |-> job_id, code |-> 404,
                             registered |-> job_id \in DOMAIN active_jobs,
                             store_call |-> "none"]
             /\ UNCHANGED output_dirs
        ELSE \* the directory is removed, then delete_stems(job_id) is called on
             \* the store if there is one; its exception is only logged
             /\ output_dirs' = output_dirs \ {job_id}
             /\ \E store \in (IF supabase_storage THEN StoreCases ELSE {"not_called"}) :
                 response' = [op |-> "delete", job_id |-> job_id, code |-> 200,
                              registered |-> job_id \in DOMAIN active_jobs,
                              store_call |-> IF supabase_storage THEN "delete_stems"
                                             ELSE "none",
                              store |-> store]
    /\ UNCHANGED <<worker, waiting, RUNPOD_AVAILABLE, SUPABASE_AVAILABLE, runpod_client, supabase_storage,
                   started, active_jobs, job_order, upload_files, sync_pc, asyncio_sleep, sync_tasks,
                   pending_jobs, shutdown, publish_count, sync_log>>

\* the stem path parameter of /download
DownloadStems == {"bass", "drums"}

\* variant: a download drops the record it served
download_stem_pops ==
    /\ Serving
    /\ \E job_id \in DOMAIN active_jobs :
        /\ active_jobs' = [j \in DOMAIN active_jobs \ {job_id} |-> active_jobs[j]]
        /\ response' = [op |-> "download", job_id |-> job_id, stem |-> "bass", code |-> 200]
    /\ UNCHANGED <<worker, waiting, RUNPOD_AVAILABLE, SUPABASE_AVAILABLE, runpod_client, supabase_storage,
                   started, job_order, upload_files, output_dirs, sync_pc, asyncio_sleep,
                   sync_tasks, pending_jobs, shutdown, publish_count, sync_log>>

\* GET /download/{job_id}/{stem}
download_stem ==
    /\ Serving
    /\ \E job_id \in PathIds, stem \in DownloadStems :
        LET code ==
            IF job_id \notin DOMAIN active_jobs THEN 404
            ELSE LET job == active_jobs[job_id]
                 IN  IF job.status # COMPLETED THEN 400
                     ELSE IF ~Truthy(job.result) \/ "stems" \notin DOMAIN job.result THEN 404
                     ELSE IF stem \notin DOMAIN job.result["stems"] THEN 404
                     ELSE IF b64decode(job.result["stems"][stem]).raised THEN 500
                     ELSE 200
        IN  response' = [op |-> "download", job_id |-> job_id, stem |-> stem, code |-> code]
    /\ UNCHANGED <<worker, waiting, RUNPOD_AVAILABLE, SUPABASE_AVAILABLE, runpod_client, supabase_storage,
                   started, active_jobs, job_order, upload_files, output_dirs, sync_pc, asyncio_sleep,
                   sync_tasks, pending_jobs, shutdown, publish_count, sync_log>>

\* GET /health
health_check ==
    /\ Serving
    /\ response' = [op |-> "health", active_jobs |-> Cardinality(DOMAIN active_jobs)]
    /\ UNCHANGED <<worker, waiting, RUNPOD_AVAILABLE, SUPABASE_AVAILABLE, runpod_client, supabase_storage,
                   started, active_jobs, job_order, upload_files, output_dirs, sync_pc, asyncio_sleep,
                   sync_tasks, pending_jobs, shutdown, publish_count, sync_log>>

----------------------------------------------------------------------------
(* Shutdown.  main.py registers no shutdown handler and keeps no handle of *)
(* the synchronizer task: the server run by uvicorn.run handles SIGTERM or  *)
(* SIGINT on the event loop, so once the loop is free, and the task ends    *)
(* when the loop is torn down while it sleeps.                              *)

\* the signal reaches the process
shutdown_signal ==
    /\ started
    /\ shutdown = "running"
    /\ shutdown' = "requested"
    /\ UNCHANGED <<worker, waiting, RUNPOD_AVAILABLE, SUPABASE_AVAILABLE, runpod_client, supabase_storage,
                   started, active_jobs, job_order, upload_files, output_dirs, sync_pc, asyncio_sleep,
                   sync_tasks, pending_jobs, publish_count, sync_log, response>>

\* the event loop gets to the signal: the server stops, the sleeping task is
\* cancelled with the loop
process_exit ==
    /\ shutdown = "requested"
    /\ sync_pc # "cycle"
    /\ shutdown' = "exited"
    /\ sync_pc' = IF sync_pc = "none" THEN "none" ELSE "cancelled"
    /\ UNCHANGED asyncio_sleep
    /\ UNCHANGED <<worker, waiting, RUNPOD_AVAILABLE, SUPABASE_AVAILABLE, runpod_client, supabase_storage,
                   started, active_jobs, job_order, upload_files, output_dirs,
                   sync_tasks, pending_jobs, publish_count, sync_log, response>>

----------------------------------------------------------------------------
(* The worker and the waiting client, each on its own.                      *)

service_vars ==
    <<RUNPOD_AVAILABLE, SUPABASE_AVAILABLE, runpod_client, supabase_storage,
      started, active_jobs, job_order, upload_files, output_dirs, sync_pc,
      asyncio_sleep, sync_tasks, pending_jobs, shutdown, publish_count, sync_log,
      response>>

\* runpod_handler.handler(event), from the call to the returned response
handler ==
    /\ worker.pc = "idle"
    /\ \E input \in EventInputs, env \in WorkerEnvs :
        worker' =
            IF "audio_file" \notin DOMAIN input
            THEN [pc |-> "returned", input |-> input, called |-> FALSE,
                  response |-> [error |-> "Missing audio_file in input"]]
            ELSE IF b64decode(input.audio_file).raised
            THEN [pc |-> "returned", input |-> input, called |-> FALSE,
                  response |-> [error |-> "Failed to decode audio data"]]
            ELSE LET r == separate_stems(input.stems, env)
                 IN  [pc |-> "returned", input |-> input, called |-> TRUE, env |-> env,
                      response |-> HandlerResponse(r.result),
                      temp_input_path |-> r.temp_input_path,
                      temp_demucs_dir |-> r.temp_demucs_dir,
                      stored |-> r.stored]
    /\ UNCHANGED <<service_vars, waiting>>

\* wait_for_completion is called: start_time = time.time()
wait_for_completion ==
    /\ waiting.pc = "idle"
    /\ waiting' = [pc |-> "test", now |-> 0, start_time |-> 0, polls |-> 0]
    /\ UNCHANGED <<service_vars, worker>>

\* the while condition: poll, or leave the loop and return "Job timed out"
WaitLoopTest ==
    /\ waiting.pc = "test"
    /\ waiting' =
          IF waiting.now - waiting.start_time < MaxWait
          THEN [waiting EXCEPT !.pc = "polling"]
          ELSE [pc |-> "returned", now |-> waiting.now, start_time |-> waiting.start_time,
                polls |-> waiting.polls, value |-> [error |-> "Job timed out"],
                timed_out |-> TRUE]
    /\ UNCHANGED <<service_vars, worker>>

\* time passes while requests.get is waiting for the answer
WaitTick ==
    /\ waiting.pc = "polling"
    /\ waiting.now < MaxClock
    /\ waiting' = [waiting EXCEPT !.now = @ + 1]
    /\ UNCHANGED <<service_vars, worker>>

\* get_job_status returns and the body of the loop runs up to return or sleep
WaitAnswer ==
    /\ waiting.pc = "polling"
    /\ \E net \in StatusNet :
        LET status == client_get_job_status(net)
            b == WaitBody(status)
        IN  waiting' =
              IF b.pc = "returned"
              THEN [pc |-> "returned", now |-> waiting.now,
                    start_time |-> waiting.start_time, polls |-> waiting.polls + 1,
                    value |-> b.value, timed_out |-> FALSE, status |-> status]
              ELSE [pc |-> b.pc, now |-> waiting.now, start_time |-> waiting.start_time,
                    polls |-> waiting.polls + 1, status |-> status]
    /\ UNCHANGED <<service_vars, worker>>

\* time.sleep(polling_interval)
WaitSleep ==
    /\ waiting.pc = "sleeping"
    /\ waiting' = [pc |-> "test",
                   now |-> IF waiting.now < MaxClock THEN waiting.now + 1 ELSE waiting.now,
                   start_time |-> waiting.start_time, polls |-> waiting.polls]
    /\ UNCHANGED <<service_vars, worker>>

\* neither the service nor its flags matter to the worker and to the client
Standalone == Init /\ RUNPOD_AVAILABLE /\ SUPABASE_AVAILABLE /\ output_dirs = {}

WorkerNext == handler

WorkerSpec == Standalone /\ [][WorkerNext]_vars

WaitNext ==
    \/ wait_for_completion
    \/ WaitLoopTest
    \/ WaitTick
    \/ WaitAnswer
    \/ WaitSleep

WaitSpec == Standalone /\ [][WaitNext]_vars

\* the interpreter goes on with the next statement and the clock goes on;
\* nothing bounds the time requests.get takes (it is given no timeout)
WaitFairSpec ==
    WaitSpec /\ WF_vars(wait_for_completion) /\ WF_vars(WaitLoopTest)
             /\ WF_vars(WaitTick) /\ WF_vars(WaitSleep)

Next ==
    \/ startup_event
    \/ SyncSnapshot
    \/ SyncPollJob
    \/ SyncSleep
    \/ SyncLoopError
    \/ separate_audio
    \/ get_job_status
    \/ delete_job

Spec == Init /\ [][Next]_vars

\* the service with its handlers that only read the registry
ReadNext ==
    \/ Next
    \/ download_stem
    \/ health_check

ReadSpec == Init /\ [][ReadNext]_vars

\* the service with the signals that end it
ShutdownNext ==
    \/ Next
    \/ shutdown_signal
    \/ process_exit

ShutdownSpec == Init /\ [][ShutdownNext]_vars

\* the event loop runs a coroutine whose sleep has ended, and a coroutine
\* that is running goes on to its next statement; nothing bounds the time
\* runpod_client.get_job_status takes (requests.get is given no timeout)
FairSpec ==
    Spec /\ WF_vars(SyncSnapshot) /\ WF_vars(SyncSleep)

\* as FairSpec, and the remote worker answers every poll
AnsweredSpec == FairSpec /\ SF_vars(SyncPollJob)

----------------------------------------------------------------------------
(* Properties                                                              *)

Terminal(job) == job.status \in {COMPLETED, FAILED}

Range(seq) == {seq[i] : i \in DOMAIN seq}

\* this step is one iteration of the synchronizer's for loop, polling job j
PollStep(j) ==
    /\ sync_pc = "cycle"
    /\ pending_jobs # <<>>
    /\ Head(pending_jobs) = j
    /\ pending_jobs' = Tail(pending_jobs)

StorageOk == SUPABASE_AVAILABLE /\ supabase_storage

\* C1: once a job is Completed or Failed, no step of a synchronizer cycle
\* changes any of its fields, and the job is in no snapshot of pending jobs,
\* so it is never polled again.
C1_TerminalJobIsFrozen ==
    [][\A j \in DOMAIN active_jobs :
          Terminal(active_jobs[j]) =>
              /\ j \in DOMAIN active_jobs'
              /\ active_jobs'[j] = active_jobs[j]
              /\ ~PollStep(j)
              /\ j \notin Range(pending_jobs')]_vars

\* a later cycle has started while a job is terminal and another is pending
C1_Witness ==
    /\ sync_pc = "cycle"
    /\ sync_log.event = "none"
    /\ pending_jobs # <<>>
    /\ \E j \in DOMAIN active_jobs : Terminal(active_jobs[j])

StatusRank(status) ==
    CASE status = SUBMITTED -> 0
      [] status = IN_QUEUE -> 1
      [] status = IN_PROGRESS -> 2
      [] OTHER -> 3

C4_TransientPollChangesNothing ==
    [][\A j \in DOMAIN active_jobs :
          (PollStep(j) /\ sync_log'.transient) => active_jobs'[j] = active_jobs[j]]_vars

\* C5: the publish step runs for a job at most once, and only in the poll
\* that moves the job from a pending status into Completed, with completed_at
\* and result set.
C5_PublishOnceOnCompletion ==
    [][\A j \in JobIds :
          publish_count'[j] # publish_count[j] =>
              /\ publish_count[j] = 0
              /\ publish_count'[j] = 1
              /\ PollStep(j)
              /\ IsPending(active_jobs[j])
              /\ active_jobs'[j].status = COMPLETED
              /\ active_jobs'[j].completed_at # NoneTime
              /\ active_jobs'[j].result # None]_vars

\* a published job is still there when a later cycle runs
C5_Witness ==
    /\ sync_pc = "cycle"
    /\ sync_log.event = "none"
    /\ \E j \in DOMAIN active_jobs : publish_count[j] = 1

\* the artifacts of a base64 result whose data could be decoded
Decodable(result) == {n \in DOMAIN result["stems"] : ~b64decode(result["stems"][n]).raised}

\* C6 (as claimed): after the publish step of a job that returned base64
\* stems of which one fails and another does not, with a store configured,
\* the job's URLs hold exactly the artifacts that did not fail.
C6_PartialUrlsKept ==
    \A j \in DOMAIN active_jobs :
        LET job == active_jobs[j]
        IN  (/\ StorageOk
             /\ job.status = COMPLETED
             /\ Truthy(job.result)
             /\ "stems" \in DOMAIN job.result
             /\ Get(job.result, "storage_type", NoneStr) = "base64"
             /\ Decodable(job.result) # {}
             /\ Decodable(job.result) # DOMAIN job.result["stems"])
            => /\ job.supabase_urls # None
               /\ DOMAIN job.supabase_urls = Decodable(job.result)

\* C7: a failed or impossible publish leaves the job Completed with
\* completed_at and result set and error unset, and the cycle goes on.
C7_PublishFailureAbsorbed ==
    /\ sync_log.event \in {"publish_failed", "no_publish"} =>
          /\ sync_pc = "cycle"
          /\ active_jobs[sync_log.job_id].status = COMPLETED
          /\ active_jobs[sync_log.job_id].completed_at # NoneTime
          /\ active_jobs[sync_log.job_id].result # None
          /\ active_jobs[sync_log.job_id].error = NoneStr
    /\ \A j \in DOMAIN active_jobs :
          publish_count[j] > 0 =>
              /\ active_jobs[j].status = COMPLETED
              /\ active_jobs[j].error = NoneStr

\* the upload of a completed job's base64 stems has just failed
C7_Witness ==
    /\ sync_log.event = "publish_failed"
    /\ active_jobs[sync_log.job_id].supabase_urls = None

\* C8 (as claimed): after a Delete of a registered job the job is no longer
\* in the registry (a Query answers 404 exactly for ids outside active_jobs).
C8_DeleteRemovesRecord ==
    (response.op = "delete" /\ response.registered)
        => response.job_id \notin DOMAIN active_jobs

\* C9 (as claimed): Delete answers NotFound exactly when the id is not in
\* the registry.
C9_DeleteNotFoundIffUnknown ==
    response.op = "delete" => (response.code = 404 <=> ~response.registered)

\* C10 (as claimed): when Submit answers with an error, the registry holds
\* the same jobs as before the request.
C10_FailedSubmitRegistersNothing ==
    (response.op = "submit" /\ response.code # 200)
        => DOMAIN active_jobs = response.before

\* C11 (as claimed): a Submit whose content type is not audio is answered
\* with the validation error 400 and has had no effect: no file staged, no
\* call of the remote worker, no job registered.
C11_NonAudioRejected ==
    (response.op = "submit" /\ response.request.content_type \notin {"audio/mpeg", "unread"})
        => /\ response.code = 400
           /\ ~response.request.called
           /\ upload_files = response.request.files
           /\ DOMAIN active_jobs = response.before

\* C12 (as claimed): a Submit whose payload has no bytes is answered with
\* the validation error 400 and has had no effect: no file staged, no call
\* of the remote worker, no job registered.
C12_EmptyPayloadRejected ==
    (response.op = "submit" /\ response.request.content = "")
        => /\ response.code = 400
           /\ ~response.request.called
           /\ upload_files = response.request.files
           /\ DOMAIN active_jobs = response.before

\* C13: after a Submit answered 200 the registry holds exactly one job more,
\* under the id of the answer; that job is submitted, with completed_at,
\* result, error and URLs unset, the worker's id as returned by the remote
\* call, and the requested stem names (the default four when none were
\* given); the answer says "submitted" and no poll of the job has happened.
C13_SuccessfulSubmitRegistersJob ==
    (response.op = "submit" /\ response.code = 200) =>
        LET j == response.job_id
            job == active_jobs[j]
        IN  /\ j \notin response.before
            /\ DOMAIN active_jobs = response.before \cup {j}
            /\ job.job_id = j
            /\ job.status = SUBMITTED
            /\ job.completed_at = NoneTime
            /\ job.result = None
            /\ job.error = NoneStr
            /\ job.supabase_urls = None
            /\ job.runpod_job_id = response.runpod_job_id
            /\ IF response.stems = <<>>
               THEN job.stems = DefaultStems
               ELSE /\ Len(job.stems) = Len(response.stems)
                    /\ \A i \in DOMAIN job.stems : job.stems[i] = strip(response.stems[i])
            /\ response.status = "submitted"
            /\ publish_count[j] = 0
            /\ sync_pc # "cycle"

\* a second job has just been accepted, with stem names of the client's
C13_Witness ==
    /\ response.op = "submit"
    /\ response.code = 200
    /\ response.before # {}
    /\ response.stems # <<>>

\* C14 (as claimed): a Query for an id that no 200 answer of Submit ever
\* carried is answered 404.
C14_UnknownIdNotFound ==
    (response.op = "query" /\ response.unanswered) => response.code = 404

\* the coroutine is inside runpod_client.get_job_status for a job
PollInFlight == sync_pc = "cycle" /\ pending_jobs # <<>>

\* C15: there is at most one task running sync_runpod_jobs, and its cycles
\* do not overlap: outside a cycle no job of a snapshot is left to poll, and
\* while a cycle runs no new cycle can start.
C15_SingleFlight ==
    /\ sync_tasks <= 1
    /\ (sync_tasks = 0) <=> (sync_pc = "none")
    /\ sync_pc # "cycle" => pending_jobs = <<>>
    /\ sync_pc = "cycle" => ~ENABLED SyncSnapshot
    /\ \A i, k \in DOMAIN pending_jobs : pending_jobs[i] = pending_jobs[k] => i = k

\* a cycle is under way: one job was just published, another is still to poll
C15_Witness ==
    /\ sync_tasks = 1
    /\ PollInFlight
    /\ sync_log.event = "copied"

\* C16 (as claimed): while the synchronizer waits for the answer to a poll,
\* a Submit and a Query can be served.
C16_ServedDuringPoll ==
    PollInFlight => (ENABLED separate_audio /\ ENABLED get_job_status)

\* C17 (as claimed): a poll in flight always comes to an end, and the cycle
\* with it, whether or not the remote worker answers.
C17_SilentPollEnds == PollInFlight ~> (sync_pc # "cycle")

\* C18 (as claimed): when an error was raised in a cycle, the wait that
\* follows the cycle is the longer backoff.
C18_ErrorMeansBackoff ==
    [][(sync_pc = "cycle" /\ sync_log.event = "raised" /\ sync_pc' # "cycle")
          => sync_pc' = "backoff"]_vars

\* C18 (amended): no error raised in a cycle ends the loop.  An error raised
\* while one job is handled is caught for that job and the cycle goes on;
\* any other error is caught at loop level, the loop waits the longer
\* backoff, and after it a new cycle is eventually started.
C18_ErrorsNeverEndTheLoop ==
    /\ [](sync_tasks = 1 => sync_pc \in {"cycle", "sleep", "backoff"})
    /\ [](sync_log.event = "raised" => sync_pc = "cycle")
    /\ (sync_pc = "backoff") ~> (sync_pc = "cycle")

\* the loop waits the backoff while a job is still pending
C18_Witness ==
    /\ sync_pc = "backoff"
    /\ \E j \in DOMAIN active_jobs : IsPending(active_jobs[j])

\* C19 (as claimed): every registered job is eventually Completed or Failed
\* (unless loop-level errors cut the cycles short for ever).
C19_EveryJobTerminates ==
    \A j \in JobIds :
        \/ []<>(sync_pc = "backoff")
        \/ (j \in DOMAIN active_jobs) ~> (j \in DOMAIN active_jobs /\ Terminal(active_jobs[j]))

\* C20 (as claimed): once shutdown is requested, the poll in flight may
\* return, and no poll of a further job is started after it.
C20_NoPollAfterShutdown ==
    [][(shutdown = "requested" /\ \E j \in JobIds : PollStep(j))
          => pending_jobs' = <<>>]_vars

\* C21: when the COMPLETED answer carries stem_urls, the job's supabase_urls
\* are exactly those URLs, and the step that completed the job took the copy
\* branch: it neither decoded nor uploaded anything, also when the answer
\* carries base64 stems beside the URLs and a store is configured.
C21_WorkerUrlsCopiedWithoutUpload ==
    \A j \in DOMAIN active_jobs :
        LET job == active_jobs[j]
        IN  (job.status = COMPLETED /\ Truthy(job.result)
                /\ "stem_urls" \in DOMAIN job.result)
            => /\ job.supabase_urls = job.result["stem_urls"]
               /\ publish_count[j] = 1
               /\ sync_log.job_id = j => sync_log.event = "copied"

\* a job was completed by an answer with URLs and base64 stems, store at hand
C21_Witness ==
    /\ sync_log.event = "copied"
    /\ StorageOk
    /\ "stems" \in DOMAIN active_jobs[sync_log.job_id].result
    /\ active_jobs[sync_log.job_id].supabase_urls \in UrlMaps

C23_DeleteSurvivesStoreFailure ==
    (/\ response.op = "delete"
     /\ response.registered \/ response.store_call = "delete_stems")
    => (response.code = 200 /\ response.job_id \notin DOMAIN active_jobs)

\* C24 (as claimed): a Delete of a registered job whose stems were published
\* asks the store to delete that job's stems.
C24_DeleteAsksStoreForJobStems ==
    (/\ response.op = "delete"
     /\ response.registered
     /\ supabase_storage
     /\ active_jobs[response.job_id].supabase_urls # None)
    => response.store_call = "delete_stems"

\* C25 (as claimed): when separate_audio has answered, the file it staged is
\* gone: UPLOAD_DIR holds the files it held before the request.
C25_StagedFileGoneOnReturn ==
    response.op = "submit" => upload_files = response.request.files

\* C26: no step changes job_id, runpod_job_id or created_at of a job, changes
\* a result that is set, or removes or replaces an entry of supabase_urls.
C26_SetOnceFieldsKept ==
    [][\A j \in DOMAIN active_jobs :
          j \in DOMAIN active_jobs'
          => /\ active_jobs'[j].job_id = active_jobs[j].job_id
             /\ active_jobs'[j].runpod_job_id = active_jobs[j].runpod_job_id
             /\ active_jobs'[j].created_at = active_jobs[j].created_at
             /\ active_jobs[j].result # None
                   => active_jobs'[j].result = active_jobs[j].result
             /\ active_jobs[j].supabase_urls # None
                   => /\ active_jobs'[j].supabase_urls # None
                      /\ \A n \in DOMAIN active_jobs[j].supabase_urls :
                            /\ n \in DOMAIN active_jobs'[j].supabase_urls
                            /\ active_jobs'[j].supabase_urls[n]
                                  = active_jobs[j].supabase_urls[n]]_vars

\* a cycle is polling a job while another job holds a result and URLs
C26_Witness ==
    /\ PollInFlight
    /\ \E j \in DOMAIN active_jobs :
          /\ j # Head(pending_jobs)
          /\ active_jobs[j].result # None
          /\ active_jobs[j].supabase_urls # None

\* C27: in every state and for every job, error is set only if the status is
\* FAILED, and result and supabase_urls are set only if it is COMPLETED.
C27_FieldsMatchStatus ==
    \A j \in DOMAIN active_jobs :
        /\ active_jobs[j].error # NoneStr => active_jobs[j].status = FAILED
        /\ active_jobs[j].result # None => active_jobs[j].status = COMPLETED
        /\ active_jobs[j].supabase_urls # None => active_jobs[j].status = COMPLETED

\* one job failed with an error, another completed with result and URLs
C27_Witness ==
    \E j, k \in DOMAIN active_jobs :
        /\ active_jobs[j].error # NoneStr
        /\ active_jobs[k].result # None
        /\ active_jobs[k].supabase_urls # None

\* C28: get_job_status, download_stem and health_check leave active_jobs as it
\* is; a record is added only by separate_audio, a field of a record changes
\* only in the synchronizer's step for that job, and no other step than a
\* delete removes a record.
C28_ReadsLeaveRegistry ==
    [][/\ (Serving /\ response'.op \in {"query", "download", "health"})
             => active_jobs' = active_jobs
       /\ ~(DOMAIN active_jobs' \subseteq DOMAIN active_jobs)
             => (Serving /\ response'.op = "submit")
       /\ ~(DOMAIN active_jobs \subseteq DOMAIN active_jobs')
             => (Serving /\ response'.op = "delete")
       /\ \A j \in DOMAIN active_jobs \cap DOMAIN active_jobs' :
             active_jobs'[j] # active_jobs[j]
             => (PollInFlight /\ Head(pending_jobs) = j)]_vars

\* a download was served from a completed job's base64 stems
C28_Witness ==
    /\ response.op = "download"
    /\ response.code = 200
    /\ active_jobs[response.job_id].status = COMPLETED

C30_JobsIsolatedInCycle ==
    [][/\ (sync_pc = "cycle" /\ sync_pc' = "cycle" /\ pending_jobs' # pending_jobs)
             => /\ DOMAIN active_jobs' = DOMAIN active_jobs
                /\ \A k \in DOMAIN active_jobs \ {Head(pending_jobs)} :
                      active_jobs'[k] = active_jobs[k]
                /\ pending_jobs' = Tail(pending_jobs)
       /\ (sync_pc = "cycle" /\ sync_pc' = "sleep") => pending_jobs = <<>>]_vars

\* the body of one job raised and the next job of the snapshot is being polled
C30_Witness ==
    /\ sync_log.event = "raised"
    /\ PollInFlight
    /\ IsPending(active_jobs[Head(pending_jobs)])

C32_CyclePollsSnapshotOnce ==
    [][/\ (sync_pc # "cycle" /\ sync_pc' = "cycle")
             => /\ Range(pending_jobs')
                      = {j \in DOMAIN active_jobs : ~Terminal(active_jobs[j])}
                /\ Len(pending_jobs') = Cardinality(Range(pending_jobs'))
       /\ (sync_pc = "cycle" /\ sync_pc' = "cycle" /\ pending_jobs' # pending_jobs)
             => /\ pending_jobs' = Tail(pending_jobs)
                /\ sync_log'.job_id = Head(pending_jobs)
                /\ sync_log'.runpod_job_id
                      = active_jobs[Head(pending_jobs)].runpod_job_id
       /\ sync_pc = "cycle" => DOMAIN active_jobs' = DOMAIN active_jobs
       /\ (sync_pc = "cycle" /\ sync_pc' = "sleep") => pending_jobs = <<>>]_vars

\* a cycle has polled the first job of its snapshot with the handle the
\* worker gave for it, and is polling the second one
C32_Witness ==
    /\ PollInFlight
    /\ sync_log.event # "none"
    /\ sync_log.job_id # Head(pending_jobs)
    /\ sync_log.runpod_job_id \in Handles

\* C34: a job whose status is COMPLETED, in whatever state a request can see
\* it, keeps its status, its result and its supabase_urls in every step.
C34_CompletedIsFinal ==
    [][\A j \in DOMAIN active_jobs :
          active_jobs[j].status = COMPLETED
          => /\ j \in DOMAIN active_jobs'
             /\ active_jobs'[j].status = COMPLETED
             /\ active_jobs'[j].result = active_jobs[j].result
             /\ active_jobs'[j].supabase_urls = active_jobs[j].supabase_urls]_vars

\* a Query has answered "completed" for a job whose URLs are set
C34_Witness ==
    /\ response.op = "query"
    /\ response.code = 200
    /\ response.status = COMPLETED
    /\ active_jobs[response.job_id].supabase_urls # None

\* C35: an answer that is a dict without "error" whose status is none of
\* IN_QUEUE, IN_PROGRESS, COMPLETED, FAILED leaves the job as it was, not
\* terminal; and every job that is not terminal is in the next snapshot.
C35_UnknownStatusIgnored ==
    [][/\ (/\ sync_pc = "cycle"
           /\ pending_jobs' # pending_jobs
           /\ sync_log'.runpod_status \notin
                 {NoneStr, "null", "error", "IN_QUEUE", "IN_PROGRESS", "COMPLETED", "FAILED"})
             => /\ active_jobs' = active_jobs
                /\ IsPending(active_jobs'[Head(pending_jobs)])
       /\ (sync_pc # "cycle" /\ sync_pc' = "cycle")
             => \A j \in DOMAIN active_jobs :
                   IsPending(active_jobs[j]) => j \in Range(pending_jobs')]_vars

\* the worker answered with a status the loop does not know
C35_Witness ==
    /\ sync_log.runpod_status \in {"CANCELLED", "missing"}
    /\ IsPending(active_jobs[sync_log.job_id])

\* C36 (as claimed): every registered job has a remote handle.
C36_EveryJobHasHandle ==
    \A j \in DOMAIN active_jobs : active_jobs[j].runpod_job_id # NoneStr

C40_UploadAllOrNothing ==
    worker.pc = "returned"
    => /\ ("error" \in DOMAIN worker.response) # ("stem_urls" \in DOMAIN worker.response)
       /\ "stem_urls" \in DOMAIN worker.response
             => /\ worker.response.status = "completed"
                /\ DOMAIN worker.response.stem_urls
                      = Range(worker.input.stems) \cap worker.env.available
                /\ \A n \in DOMAIN worker.response.stem_urls : worker.env.upload[n]
                /\ worker.stored = DOMAIN worker.response.stem_urls

\* one stem was uploaded, the next upload failed, the response is an error
C40_Witness ==
    /\ worker.pc = "returned"
    /\ worker.called
    /\ worker.stored # {}
    /\ "error" \in DOMAIN worker.response

C38_WaitTerminates ==
    <>(waiting.pc \in {"returned", "raised"})

\* C39: download_stem answers 200 only for a registered COMPLETED job whose
\* result holds decodable base64 data under the requested name; 404 for an
\* unknown id, 400 for a job that is not COMPLETED, 404 for a COMPLETED job
\* whose result has no "stems".
C39_DownloadOnlyRawStems ==
    response.op = "download"
    => /\ response.code = 200
             => /\ response.job_id \in DOMAIN active_jobs
                /\ active_jobs[response.job_id].status = COMPLETED
                /\ Truthy(active_jobs[response.job_id].result)
                /\ "stems" \in DOMAIN active_jobs[response.job_id].result
                /\ response.stem \in Decodable(active_jobs[response.job_id].result)
       /\ response.job_id \notin DOMAIN active_jobs => response.code = 404
       /\ response.job_id \in DOMAIN active_jobs
             => /\ active_jobs[response.job_id].status # COMPLETED
                      => response.code = 400
                /\ (/\ active_jobs[response.job_id].status = COMPLETED
                    /\ "stems" \notin DOMAIN active_jobs[response.job_id].result)
                      => response.code = 404

\* a download of a COMPLETED job that holds only the worker's URLs
C39_Witness ==
    /\ response.op = "download"
    /\ response.code = 404
    /\ response.job_id \in DOMAIN active_jobs
    /\ active_jobs[response.job_id].status = COMPLETED
    /\ active_jobs[response.job_id].supabase_urls # None

====
